---- MODULE Spec2Model ----
(***************************************************************************)
(* Model of src/logic.cpp: the questionnaire scorer hitung_skor and the    *)
(* command line driver main.  A run of main is one behaviour: the          *)
(* arguments are fixed by Init, and each action is one step of main or of  *)
(* the loop of hitung_skor.  A second specification, ScorerSpec, applies   *)
(* hitung_skor alone to integer vectors, several times in a row.           *)
(***************************************************************************)
EXTENDS Integers, Sequences, FiniteSets, TLC

VARIABLES
    argv,           \* argv[1..argc-1]: each argument a sequence of characters
    pc,             \* position of the run
    argi,           \* main's loop variable i (line 42)
    jawaban,        \* main's vector<int> jawaban, the argument of hitung_skor
    i,              \* hitung_skor's loop variable i (0-based, line 19)
    total,          \* hitung_skor's local total (line 18)
    ret,            \* the value hitung_skor returns
    total_skor,     \* main's total_skor (line 52)
    REVERSE_FLAGS,  \* the global mask (line 10)
    out,            \* lines written to standard output
    err,            \* diagnostics written to standard error
    status,         \* exit status of main, meaningful once pc = "done"
    calls,          \* number of calls of hitung_skor so far
    stoi_calls,     \* number of calls of stoi so far
    oob,            \* TRUE once REVERSE_FLAGS was read out of bounds
    results         \* ScorerSpec only: the values returned by successive calls

vars == <<argv, pc, argi, jawaban, i, total, ret, total_skor, REVERSE_FLAGS,
          out, err, status, calls, stoi_calls, oob, results>>

----------------------------------------------------------------------------
(* Bounds of the model. *)

\* Argument counts (argc - 1) tried by Init: MinArgs..MaxArgs.
MinArgs == 9
MaxArgs == 11
\* At most MaxVaried positions of an input differ from its base value.
MaxVaried == 2
\* ScorerSpec calls hitung_skor this many times on the same vector.
NumCalls == 2

----------------------------------------------------------------------------
(* Program constants. *)

\* Mutant: the test argc != 12, which lets 11 arguments through.
ExpectedArgc_OffByOne == 11 + 1

\* line 35: argc != 11
ExpectedArgc == 11
\* line 23: v < 0 || v > 3, line 28: 3 - v
MinAnswer == 0
MaxAnswer == 3
\* line 25: return -1
Sentinel == -1
\* the range of int, which stoi (line 45) enforces
INT_MAX == 2147483647
INT_MIN == -2147483647 - 1

\* Mutant: the second reverse-coded question marked one position early.
ReverseFlagsTable_Shifted ==
    << FALSE, FALSE, FALSE, FALSE, TRUE,
       FALSE, FALSE, TRUE, FALSE, FALSE >>

\* lines 10-13
ReverseFlagsTable ==
    << FALSE, FALSE, FALSE, FALSE, TRUE,
       FALSE, FALSE, FALSE, TRUE, FALSE >>

----------------------------------------------------------------------------
(* std::stoi(str), base 10 (line 45): strtol skips leading white space,    *)
(* takes an optional sign and the longest run of digits, and ignores what  *)
(* follows; stoi throws invalid_argument when no digit was converted and   *)
(* out_of_range when the value does not fit an int.                        *)

Digits == <<"0", "1", "2", "3", "4", "5", "6", "7", "8", "9">>

IsDigit(c) == \E d \in 1..10 : Digits[d] = c

DigitVal(c) == (CHOOSE d \in 1..10 : Digits[d] = c) - 1

\* isspace: blank, tab, line feed, carriage return (form feed and vertical
\* tab, which no input of the model holds, are left out)
IsSpace(c) == c \in {" ", "\t", "\n", "\r"}

RECURSIVE SkipSpace(_, _)
SkipSpace(s, k) ==
    IF k <= Len(s) /\ IsSpace(s[k]) THEN SkipSpace(s, k + 1) ELSE k

\* The digits of s from position k on, accumulated as the negated magnitude
\* m (so that INT_MIN is representable); n counts the digits, over records
\* that the magnitude exceeded -INT_MIN.
RECURSIVE StrtolDigits(_, _, _)
StrtolDigits(s, k, st) ==
    IF k > Len(s) \/ ~IsDigit(s[k])
    THEN st
    ELSE LET d == DigitVal(s[k])
             fits == /\ ~st.over
                     /\ \/ st.m > INT_MIN \div 10 + 1
                        \/ st.m = INT_MIN \div 10 + 1 /\ d <= 8
         IN  StrtolDigits(s, k + 1,
                 [m |-> IF fits THEN st.m * 10 - d ELSE st.m,
                  n |-> st.n + 1,
                  over |-> ~fits])

\* [ok |-> TRUE, val |-> the int] or [ok |-> FALSE, what |-> the exception]
Stoi(s) ==
    LET k0 == SkipSpace(s, 1)
        neg == k0 <= Len(s) /\ s[k0] = "-"
        k1 == IF k0 <= Len(s) /\ s[k0] \in {"+", "-"} THEN k0 + 1 ELSE k0
        st == StrtolDigits(s, k1, [m |-> 0, n |-> 0, over |-> FALSE])
    IN  IF st.n = 0 THEN [ok |-> FALSE, what |-> "invalid_argument"]
        ELSE IF st.over \/ (~neg /\ st.m < -INT_MAX)
             THEN [ok |-> FALSE, what |-> "out_of_range"]
             ELSE [ok |-> TRUE, val |-> IF neg THEN st.m ELSE -st.m]

----------------------------------------------------------------------------
(* Inputs. *)

\* Argument texts tried at the varied positions.
VariedArgs ==
    { <<"1">>, <<"2">>, <<"4">>, <<"-", "1">>, <<"+", "1">>, <<>>,
      <<"a", "b", "c">>, <<"3", "a", "b", "c">>,
      <<"9", "9", "9", "9", "9", "9", "9", "9", "9", "9", "9">> }

\* Argument texts tried at all the other positions.
BaseArgs == { <<"0">>, <<"3">> }

\* Integer values tried by ScorerSpec.
VariedVals == { -1, 1, 2, 4 }
BaseVals == { 0, 3 }

\* The sets of at most MaxVaried positions of an input of length n.
VariedPositions(n) == { T \in SUBSET (1..n) : Cardinality(T) <= MaxVaried }

\* The input of length n that holds f at the positions f is defined on and
\* b elsewhere.
Input(n, b, f) == [k \in 1..n |-> IF k \in DOMAIN f THEN f[k] ELSE b]

----------------------------------------------------------------------------
(* Diagnostics of main. *)

\* Mutant: the message reports argc instead of argc - 1.
ArityError_Argc(n) == [kind |-> "ArityError", count |-> n + 1]

ArityError(n) == [kind |-> "ArityError", count |-> n]
ParseError(pos, text) == [kind |-> "ParseError", pos |-> pos, text |-> text]
OutOfRangeError(v) == [kind |-> "OutOfRangeError", value |-> v]
InternalError == [kind |-> "InternalInconsistencyError"]

argc == Len(argv) + 1

----------------------------------------------------------------------------
(* hitung_skor, lines 16-32. *)

\* Mutant: the upper test one too lax, v > 4.
OutOfRange_Lax(v) == v < MinAnswer \/ v > MaxAnswer + 1

\* Mutant: the upper test one too strict, v > 2.
OutOfRange_Strict(v) == v < MinAnswer \/ v > MaxAnswer - 1

\* line 23
OutOfRange(v) == v < MinAnswer \/ v > MaxAnswer

\* The values a read of REVERSE_FLAGS[k] (0-based) may produce: the element,
\* or anything when k is past the end (operator[] does not check).
ReadFlag(k) ==
    IF k < Len(REVERSE_FLAGS) THEN { REVERSE_FLAGS[k + 1] } ELSE BOOLEAN

\* Mutant: total keeps its value from one call to the next (a static local).
EnterHitungSkor_StaticTotal ==
    /\ total' = total
    /\ i' = 0
    /\ calls' = calls + 1
    /\ pc' = "hitung_skor"

\* Entry of a call: the locals of lines 18-19.
EnterHitungSkor ==
    /\ total' = 0
    /\ i' = 0
    /\ calls' = calls + 1
    /\ pc' = "hitung_skor"

\* One evaluation of the loop test and, if it holds, of the body.
HitungSkorStep ==
    /\ pc = "hitung_skor"
    /\ IF i < Len(jawaban)
       THEN LET v == jawaban[i + 1] IN
            IF OutOfRange(v)
            THEN /\ ret' = Sentinel
                 /\ pc' = "returned"
                 /\ UNCHANGED <<total, i, oob>>
            ELSE \E flag \in ReadFlag(i) :
                 /\ total' = total + (IF flag THEN MaxAnswer - v ELSE v)
                 /\ i' = i + 1
                 /\ oob' = (oob \/ i >= Len(REVERSE_FLAGS))
                 /\ UNCHANGED <<ret, pc>>
       ELSE /\ ret' = total
            /\ pc' = "returned"
            /\ UNCHANGED <<total, i, oob>>
    /\ UNCHANGED <<argv, argi, jawaban, total_skor, REVERSE_FLAGS, out, err,
                   status, calls, stoi_calls, results>>

----------------------------------------------------------------------------
(* main, lines 34-67. *)

\* lines 35-39, and the initialisation of lines 41-42
MainArity ==
    /\ pc = "start"
    /\ IF argc # ExpectedArgc
       THEN /\ err' = Append(err, ArityError(argc - 1))
            /\ status' = 1
            /\ pc' = "done"
            /\ UNCHANGED <<argi, jawaban>>
       ELSE /\ jawaban' = <<>>
            /\ argi' = 1
            /\ pc' = "parse"
            /\ UNCHANGED <<err, status>>
    /\ UNCHANGED <<argv, i, total, ret, total_skor, REVERSE_FLAGS, out, calls,
                   stoi_calls, oob, results>>

\* lines 42-50: one iteration of the parsing loop
MainParse ==
    /\ pc = "parse"
    /\ argi < argc
    /\ LET r == Stoi(argv[argi]) IN
       /\ stoi_calls' = stoi_calls + 1
       /\ IF r.ok
          THEN /\ jawaban' = Append(jawaban, r.val)
               /\ argi' = argi + 1
               /\ UNCHANGED <<err, status, pc>>
          ELSE /\ err' = Append(err, ParseError(argi, argv[argi]))
               /\ status' = 1
               /\ pc' = "done"
               /\ UNCHANGED <<jawaban, argi>>
    /\ UNCHANGED <<argv, i, total, ret, total_skor, REVERSE_FLAGS, out, calls,
                   oob, results>>

\* line 52: the loop is over, main calls hitung_skor(jawaban)
MainCall ==
    /\ pc = "parse"
    /\ ~(argi < argc)
    /\ EnterHitungSkor
    /\ UNCHANGED <<argv, argi, jawaban, ret, total_skor, REVERSE_FLAGS, out,
                   err, status, stoi_calls, oob, results>>

\* Mutant: the scan reports the last element outside [0,3].
RECURSIVE FirstOutOfRange_Last(_, _)
FirstOutOfRange_Last(s, k) ==
    IF k > Len(s) THEN <<>>
    ELSE LET rest == FirstOutOfRange_Last(s, k + 1) IN
         IF rest # <<>> THEN rest
         ELSE IF s[k] < MinAnswer \/ s[k] > MaxAnswer THEN <<s[k]>>
         ELSE <<>>

\* The first element of s outside [0,3], as the loop of lines 55-60 finds it.
RECURSIVE FirstOutOfRange(_, _)
FirstOutOfRange(s, k) ==
    IF k > Len(s) THEN <<>>
    ELSE IF s[k] < MinAnswer \/ s[k] > MaxAnswer THEN <<s[k]>>
    ELSE FirstOutOfRange(s, k + 1)

\* lines 52-66: the returned value is stored and reported
MainReport ==
    /\ pc = "returned"
    /\ total_skor' = ret
    /\ IF ret = Sentinel
       THEN LET found == FirstOutOfRange(jawaban, 1) IN
            /\ err' = Append(err, IF found # <<>>
                                  THEN OutOfRangeError(found[1])
                                  ELSE InternalError)
            /\ status' = 1
            /\ UNCHANGED out
       ELSE /\ out' = Append(out, ret)
            /\ status' = 0
            /\ UNCHANGED err
    /\ pc' = "done"
    /\ UNCHANGED <<argv, argi, jawaban, i, total, ret, REVERSE_FLAGS, calls,
                   stoi_calls, oob, results>>

----------------------------------------------------------------------------
(* The run of main. *)

Init ==
    /\ \E n \in MinArgs..MaxArgs, b \in BaseArgs :
          \E S \in VariedPositions(n) :
             \E f \in [S -> VariedArgs] : argv = Input(n, b, f)
    /\ pc = "start"
    /\ argi = 0
    /\ jawaban = <<>>
    /\ i = 0
    /\ total = 0
    /\ ret = 0
    /\ total_skor = 0
    /\ REVERSE_FLAGS = ReverseFlagsTable
    /\ out = <<>>
    /\ err = <<>>
    /\ status = 0
    /\ calls = 0
    /\ stoi_calls = 0
    /\ oob = FALSE
    /\ results = <<>>

Next ==
    \/ MainArity
    \/ MainParse
    \/ MainCall
    \/ HitungSkorStep
    \/ MainReport

Spec == Init /\ [][Next]_vars

----------------------------------------------------------------------------
(* hitung_skor alone, called NumCalls times on the same vector. *)

ScorerCall ==
    /\ pc = "idle"
    /\ calls < NumCalls
    /\ EnterHitungSkor
    /\ UNCHANGED <<argv, argi, jawaban, ret, total_skor, REVERSE_FLAGS, out,
                   err, status, stoi_calls, oob, results>>

ScorerReturn ==
    /\ pc = "returned"
    /\ results' = Append(results, ret)
    /\ pc' = "idle"
    /\ UNCHANGED <<argv, argi, jawaban, i, total, ret, total_skor,
                   REVERSE_FLAGS, out, err, status, calls, stoi_calls, oob>>

ScorerInit ==
    /\ \E b \in BaseVals :
          \E S \in VariedPositions(Len(ReverseFlagsTable)) :
             \E f \in [S -> VariedVals] :
                jawaban = Input(Len(ReverseFlagsTable), b, f)
    /\ argv = <<>>
    /\ pc = "idle"
    /\ argi = 0
    /\ i = 0
    /\ total = 0
    /\ ret = 0
    /\ total_skor = 0
    /\ REVERSE_FLAGS = ReverseFlagsTable
    /\ out = <<>>
    /\ err = <<>>
    /\ status = 0
    /\ calls = 0
    /\ stoi_calls = 0
    /\ oob = FALSE
    /\ results = <<>>

ScorerNext ==
    \/ ScorerCall
    \/ HitungSkorStep
    \/ ScorerReturn

ScorerSpec == ScorerInit /\ [][ScorerNext]_vars

----------------------------------------------------------------------------
(* What the properties below are stated with. *)

InRange(v) == 0 <= v /\ v <= 3

AllInRange(s) == \A k \in 1..Len(s) : InRange(s[k])

\* The contribution of answer v at 0-based position k.
Contribution(v, k) == IF k \in {4, 8} THEN 3 - v ELSE v

RECURSIVE SumContributions(_, _)
SumContributions(s, n) ==
    IF n = 0 THEN 0
    ELSE SumContributions(s, n - 1) + Contribution(s[n], n - 1)

ExpectedScore(s) == SumContributions(s, Len(s))

\* A base-10 integer literal: an optional sign, then digits and nothing else.
IsIntegerLiteral(s) ==
    LET k1 == IF Len(s) >= 1 /\ s[1] \in {"+", "-"} THEN 2 ELSE 1
    IN  /\ k1 <= Len(s)
        /\ \A k \in k1..Len(s) : s[k] \in {"0", "1", "2", "3", "4", "5", "6", "7", "8", "9"}

\* The magnitude of the digits s[k..Len(s)] appended to acc, capped at 4.
RECURSIVE CappedMagnitude(_, _, _)
CappedMagnitude(s, k, acc) ==
    IF k > Len(s) THEN acc
    ELSE LET d == CHOOSE x \in 0..9 : ToString(x) = s[k]
             v == acc * 10 + d
         IN  CappedMagnitude(s, k + 1, IF v > 3 THEN 4 ELSE v)

\* The integer literal s denotes a value in [0,3].
LiteralInRange(s) ==
    LET signed == s[1] \in {"+", "-"}
        mag == CappedMagnitude(s, IF signed THEN 2 ELSE 1, 0)
    IN  IF s[1] = "-" THEN mag = 0 ELSE mag <= 3

ValidInvocation ==
    /\ Len(argv) = 10
    /\ \A k \in 1..Len(argv) :
          IsIntegerLiteral(argv[k]) /\ LiteralInRange(argv[k])

NotLiteral(a) == ~IsIntegerLiteral(a)

NotInRange(v) == ~InRange(v)

\* The lowest position of s that holds no integer literal.
FirstNotLiteral(s) ==
    CHOOSE k \in 1..Len(s) :
        NotLiteral(s[k]) /\ \A j \in 1..(k - 1) : ~NotLiteral(s[j])

\* The lowest position of s that holds a value outside [0,3].
FirstNotInRange(s) ==
    CHOOSE k \in 1..Len(s) :
        NotInRange(s[k]) /\ \A j \in 1..(k - 1) : ~NotInRange(s[j])

----------------------------------------------------------------------------
(* C1 (ScorerSpec): for every vector of ten answers in [0,3], hitung_skor  *)
(* returns the sum of the contributions, 3 - v at positions 4 and 8 and v  *)
(* elsewhere; the result lies in [0,30]; all zeros give 6 and all threes   *)
(* give 24.                                                                *)
C1_ScoreIsSumOfContributions ==
    (pc = "returned" /\ AllInRange(jawaban)) =>
        /\ ret = ExpectedScore(jawaban)
        /\ ret \in 0..30
        /\ (\A k \in 1..Len(jawaban) : jawaban[k] = 0) => ret = 6
        /\ (\A k \in 1..Len(jawaban) : jawaban[k] = 3) => ret = 24

\* a valid vector whose reverse-coded positions hold different answers
C1_Witness ==
    /\ pc = "returned"
    /\ Len(jawaban) = 10
    /\ AllInRange(jawaban)
    /\ jawaban[5] = 1
    /\ jawaban[9] = 2
    /\ ret = ExpectedScore(jawaban)

(* C2: a run of main ends with status 0 exactly when ten arguments follow  *)
(* the program name, each of them is a base-10 integer literal and each    *)
(* value lies in [0,3]; every other run ends with status 1.                *)
C2_ExitZeroIffValidInvocation ==
    pc = "done" =>
        /\ (status = 0) <=> ValidInvocation
        /\ status \in {0, 1}

(* C3: when the number of arguments is not 10, main reports an ArityError  *)
(* with the count received, exits with status 1, writes nothing to         *)
(* standard output, parses no argument and does not call hitung_skor.      *)
C3_ArityError ==
    Len(argv) # 10 =>
        /\ stoi_calls = 0
        /\ calls = 0
        /\ jawaban = <<>>
        /\ out = <<>>
        /\ pc \in {"start", "done"}
        /\ pc = "done" =>
              /\ err = << [kind |-> "ArityError", count |-> Len(argv)] >>
              /\ status = 1

C3_Witness ==
    /\ pc = "done"
    /\ Len(argv) = 11
    /\ err = << [kind |-> "ArityError", count |-> 11] >>
    /\ status = 1

(* C4: with ten arguments of which at least one is not a base-10 integer   *)
(* literal, main reports a ParseError with the 1-based position and the    *)
(* text of the first such argument, exits with status 1, parses nothing    *)
(* after it and never calls hitung_skor.                                   *)
C4_ParseErrorAtFirstNonLiteral ==
    (pc = "done" /\ Len(argv) = 10 /\ \E k \in 1..10 : NotLiteral(argv[k])) =>
        LET p == FirstNotLiteral(argv) IN
        /\ err = << [kind |-> "ParseError", pos |-> p, text |-> argv[p]] >>
        /\ status = 1
        /\ stoi_calls = p
        /\ calls = 0

(* C5: when all ten arguments parse and a parsed value lies outside [0,3], *)
(* hitung_skor returns the failure value and main reports an               *)
(* OutOfRangeError with the first such value from the left, exits with     *)
(* status 1 and prints no score.                                           *)
C5_OutOfRangeReportsFirst ==
    (pc = "done" /\ Len(jawaban) = 10 /\ ~AllInRange(jawaban)) =>
        LET p == FirstNotInRange(jawaban) IN
        /\ total_skor = -1
        /\ err = << [kind |-> "OutOfRangeError", value |-> jawaban[p]] >>
        /\ status = 1
        /\ out = <<>>

\* two values out of range, the first of them reported
C5_Witness ==
    /\ pc = "done"
    /\ Len(jawaban) = 10
    /\ \E p, q \in 1..10 :
          /\ p < q
          /\ NotInRange(jawaban[p])
          /\ NotInRange(jawaban[q])
          /\ jawaban[p] # jawaban[q]
          /\ err = << [kind |-> "OutOfRangeError", value |-> jawaban[p]] >>

(* C6: standard output receives either one line, the score of a valid      *)
(* vector (then the run exits 0 and standard error stays empty), or        *)
(* nothing (then the run exits non-zero with exactly one diagnostic);      *)
(* never both a score and a diagnostic, never a partial value or -1.       *)
C6_ScoreOrDiagnostic ==
    /\ Len(out) <= 1
    /\ \A k \in 1..Len(out) : out[k] \in 0..30
    /\ ~(out # <<>> /\ err # <<>>)
    /\ pc # "done" => (out = <<>> /\ err = <<>>)
    /\ pc = "done" =>
          \/ /\ Len(jawaban) = 10
             /\ AllInRange(jawaban)
             /\ out = << ExpectedScore(jawaban) >>
             /\ status = 0
             /\ err = <<>>
          \/ /\ out = <<>>
             /\ status # 0
             /\ Len(err) = 1

C6_Witness ==
    /\ pc = "done"
    /\ status = 0
    /\ err = <<>>
    /\ Len(out) = 1
    /\ \E k \in 1..10 : jawaban[k] = 2

(* C7 (ScorerSpec): hitung_skor is deterministic and free of side          *)
(* effects: successive calls on the same vector return the same value,     *)
(* and no step changes the vector or REVERSE_FLAGS.                        *)
C7_DeterministicNoSideEffects ==
    /\ [](\A a, b \in 1..Len(results) : results[a] = results[b])
    /\ [](REVERSE_FLAGS = ReverseFlagsTable)
    /\ [][jawaban' = jawaban /\ REVERSE_FLAGS' = REVERSE_FLAGS]_vars

\* two calls returned, on a valid vector with a non-zero score
C7_Witness ==
    /\ Len(results) = 2
    /\ AllInRange(jawaban)
    /\ results[1] = results[2]
    /\ results[1] > 6

(* C8: the fallback of main is unreachable: whenever hitung_skor returns   *)
(* -1 some parsed value lies outside [0,3], hitung_skor never returns -1   *)
(* for a vector within [0,3], and the internal error is never reported.    *)
C8_FallbackUnreachable ==
    /\ (pc = "returned" /\ ret = -1) => ~AllInRange(jawaban)
    /\ (pc = "returned" /\ AllInRange(jawaban)) => ret >= 0
    /\ \A k \in 1..Len(err) : err[k].kind # "InternalInconsistencyError"

C8_Witness ==
    /\ pc = "done"
    /\ total_skor = -1
    /\ ~AllInRange(jawaban)
    /\ Len(err) = 1
    /\ err[1].kind = "OutOfRangeError"

(* C9: the checks run in a fixed order and the first error ends the run:   *)
(* nothing is parsed unless the count is 10, hitung_skor is called only    *)
(* after all ten arguments parsed, and with ten arguments of which one is  *)
(* not numeric and another is an integer outside [0,3] the run reports     *)
(* the ParseError and never the OutOfRangeError.                           *)
C9_ParseErrorBeforeRangeError ==
    /\ stoi_calls > 0 => Len(argv) = 10
    /\ calls > 0 => stoi_calls = 10
    /\ ( /\ pc = "done"
         /\ Len(argv) = 10
         /\ \E k \in 1..10 : NotLiteral(argv[k])
         /\ \E k \in 1..10 :
               IsIntegerLiteral(argv[k]) /\ ~LiteralInRange(argv[k]) )
       => /\ Len(err) = 1
          /\ err[1].kind = "ParseError"

(* C10: every call of hitung_skor by main passes a vector of exactly ten   *)
(* elements, so every index used to read REVERSE_FLAGS lies in 0..9 and    *)
(* the mask is never read out of bounds.                                   *)
C10_MaskReadInBounds ==
    /\ calls > 0 => Len(jawaban) = 10
    /\ (pc = "hitung_skor" /\ i < Len(jawaban)) => (0 <= i /\ i < 10)
    /\ Len(REVERSE_FLAGS) = 10
    /\ ~oob

\* the last element of the mask is about to be read
C10_Witness ==
    /\ pc = "hitung_skor"
    /\ Len(jawaban) = 10
    /\ i = 9
    /\ InRange(jawaban[10])

====
